---- MODULE Spec2Model ----
(***************************************************************************)
(* Model of the signal classifier service (ml_service/signal_classifier.py)*)
(* and of the training pipeline (ml_service/train_model.py).               *)
(*                                                                         *)
(* Python floats are IEEE-754 doubles.  A double x is represented by the   *)
(* pair <<c, d>> with  x = (c * 2^55 + d) * U,  U = 2^-57 / 25, so that    *)
(* c counts hundredths and d is the (small) distance of x from c/100.      *)
(* Every double in [2^-5, 128) is an integer multiple of U, and addition   *)
(* rounds the exact sum to the nearest multiple of the binade's spacing,   *)
(* ties to even.                                                           *)
(***************************************************************************)
EXTENDS Integers, Sequences, FiniteSets, TLC

VARIABLES
    pc,              \* service: "startup" before load_model ran, then "serving"
    artifact,        \* what is stored at MODEL_PATH
    minProbEnv,      \* the MIN_PROBABILITY environment variable
    model,           \* the module-level global `model`
    lastReq,         \* the request of the last call handled
    lastResp,        \* the response of the last call handled
    tpc,             \* training pipeline: position in main()
    source,          \* the historical source the pipeline finds
    df,              \* the DataFrame returned by fetch_trade_data
    X,               \* feature matrix returned by prepare_features
    y,               \* target vector returned by prepare_features
    fitted           \* what train_model fitted and main() saved

svars == <<pc, artifact, minProbEnv, model, lastReq, lastResp>>
tvars == <<tpc, source, df, X, y, fitted>>
vars == <<pc, artifact, minProbEnv, model, lastReq, lastResp, tpc, source, df, X, y, fitted>>

---------------------------------------------------------------------------
(* IEEE-754 double arithmetic on <<c, d>> pairs *)

RECURSIVE Pow2Mod(_, _)
Pow2Mod(n, m) == IF n = 0 THEN 1 % m ELSE (2 * Pow2Mod(n - 1, m)) % m

FNeg(a) == <<0 - a[1], 0 - a[2]>>

\* a >= b, a > b on doubles (|d| is far below 2^54, so the order is lexicographic)
FGe(a, b) == a[1] > b[1] \/ (a[1] = b[1] /\ a[2] >= b[2])
FGt(a, b) == a[1] > b[1] \/ (a[1] = b[1] /\ a[2] > b[2])
FLe(a, b) == FGe(b, a)
FLt(a, b) == FGt(b, a)

Float == Int \X Int

\* spacing, in units of U, of the doubles of the binade that holds a >= 0
RECURSIVE GridFrom(_, _, _)
GridFrom(a, b, g) == IF FGe(a, <<2 * b, 0>>) THEN GridFrom(a, 2 * b, 2 * g) ELSE g

GridOf[a \in Float] ==
    IF FGe(a, <<100, 0>>) THEN GridFrom(a, 100, 800)
    ELSE IF FGe(a, <<50, 0>>) THEN 400
    ELSE IF FGe(a, <<25, 0>>) THEN 200
    ELSE IF a[1] >= 13 THEN 100
    ELSE IF a[1] >= 7 THEN 50
    ELSE 25

\* the spacings 25 * 2^k and the residue of 2^55 modulo each
Grids == {25 * Pow2Mod(k, 1000000) : k \in 0..13}
PowTab == [g \in Grids |-> Pow2Mod(55, g)]

\* (c * 2^55 + d) mod g
FRem(a, g) == (a[1] * PowTab[g] + a[2] + 16 * g) % g

\* round-to-nearest, ties-to-even, of an exact non-negative value
RoundPos[a \in Float] ==
    IF a = <<0, 0>> THEN a
    ELSE LET g == GridOf[a]
             r == FRem(a, g)
             down == <<a[1], a[2] - r>>
             up == <<a[1], a[2] + (g - r)>>
         IN  IF r = 0 THEN a
             ELSE IF 2 * r < g THEN down
             ELSE IF 2 * r > g THEN up
             ELSE IF FRem(down, 2 * g) = 0 THEN down ELSE up

Round[a \in Float] == IF FGe(a, <<0, 0>>) THEN RoundPos[a] ELSE FNeg(RoundPos[FNeg(a)])

\* float("<c/100>"): the double nearest to the decimal c/100
Lit(c) == Round[<<c, 0>>]

FSum[p \in Float \X Float] == Round[<<p[1][1] + p[2][1], p[1][2] + p[2][2]>>]
FAdd(a, b) == FSum[<<a, b>>]
FSub(a, b) == FSum[<<a, FNeg(b)>>]

FMaxOf[p \in Float \X Float] == IF FGe(p[1], p[2]) THEN p[1] ELSE p[2]
FMinOf[p \in Float \X Float] == IF FLe(p[1], p[2]) THEN p[1] ELSE p[2]
FMax(a, b) == FMaxOf[<<a, b>>]
FMin(a, b) == FMinOf[<<a, b>>]

F0 == <<0, 0>>
F1 == <<100, 0>>

\* the double just below a (a not a power of two)
FPred(a) == <<a[1], a[2] - GridOf[a]>>

---------------------------------------------------------------------------
(* ml_service/signal_classifier.py *)

None == "None"

\* what the file system holds at MODEL_PATH when the process starts:
\* no file; a fitted classifier; an object that unpickles but cannot score
\* (not a classifier, or fitted on another feature shape); a file that
\* joblib cannot unpickle
Artifacts == {"missing", "classifier", "malformed", "unreadable"}

\* values of the MIN_PROBABILITY environment variable
EnvValues == {"unset", "0.5", "0.8", "abc"}

\* class SignalRequest: the body of a POST /predict, indicator values given
\* in hundredths; m holds macd, macd_signal, atr_percent and the price.
\* wellTyped says that every field declared float carries a number
\* (pydantic's validation).
SignalRequest(sd, r, a, c, v, e, m, t) ==
    [symbol |-> "BTCUSDT", side |-> sd, rsi |-> Lit(r), macd |-> Lit(m[1]),
     macd_signal |-> Lit(m[2]), ema_alignment |-> Lit(e), atr_percent |-> Lit(m[3]),
     volume_ratio |-> Lit(v), cvd |-> Lit(c), adx |-> Lit(a), price |-> m[4],
     wellTyped |-> t]

\* indicator values carried by requests, in hundredths: one value inside
\* each band of the scoring rules ...
RsiBands == {2500, 5000, 7500}
AdxBands == {1000, 2200, 3000}
CvdBands == {-10000, 10000}
VolumeBands == {100, 150}
EmaBands == {-100, 100}
\* ... and every value on a band's edge
RsiValues == RsiBands \cup {3000, 4000, 6000, 7000}
AdxValues == AdxBands \cup {2000, 2500}
CvdValues == CvdBands \cup {0}
VolumeValues == VolumeBands \cup {120}
EmaValues == EmaBands \cup {0}

\* all combinations of the bands for both sides
BandRequests ==
    {SignalRequest(sd, r, a, c, v, e, <<10, 5, 150, 50000>>, TRUE) :
        sd \in {"BUY", "SELL"}, r \in RsiBands, a \in AdxBands, c \in CvdBands,
        v \in VolumeBands, e \in EmaBands}

\* the two example signals, and each with one indicator moved over all its
\* values
EdgeRequests ==
    UNION {
      {SignalRequest(sd, r, b[2], b[3], b[4], b[5], b[6], TRUE) : r \in RsiValues}
      \cup {SignalRequest(sd, b[1], a, b[3], b[4], b[5], b[6], TRUE) : a \in AdxValues}
      \cup {SignalRequest(sd, b[1], b[2], c, b[4], b[5], b[6], TRUE) : c \in CvdValues}
      \cup {SignalRequest(sd, b[1], b[2], b[3], v, b[5], b[6], TRUE) : v \in VolumeValues}
      \cup {SignalRequest(sd, b[1], b[2], b[3], b[4], e, b[6], TRUE) : e \in EmaValues}
      : sd \in {"BUY", "SELL"},
        b \in {<<5000, 3000, 10000, 150, 100, <<10, 5, 150, 50000>>>>,
               <<5000, 1000, 0, 100, 0, <<0, 0, 100, 1000>>>>} }

\* a side outside BUY and SELL, for signals of either direction
OtherSideRequests ==
    {SignalRequest("LONG", r, 3000, c, 150, e, <<10, 5, 150, 50000>>, TRUE) :
        r \in {2500, 5000, 7500}, c \in CvdBands, e \in EmaBands}

\* bodies with a field that is not a number
IllTypedRequests ==
    {SignalRequest(sd, 5000, 1000, 0, 100, 0, <<0, 0, 100, 1000>>, FALSE) : sd \in {"BUY", "LONG"}}

Requests == BandRequests \cup EdgeRequests \cup OtherSideRequests \cup IllTypedRequests

\* probabilities a fitted classifier may return for class 1: the edges of
\* the confidence bands and the doubles just below them
ModelProbs ==
    {FPred(Lit(60)), Lit(60), FPred(Lit(80)), Lit(80)}

\* lines 89-100: the serving-time feature vector, and the quantity each
\* position holds
ServingFeatureNames ==
    <<"rsi", "macd", "macd_signal", "macd_histogram", "ema_alignment",
      "atr_percent", "volume_ratio", "cvd", "adx", "side_encoded">>

SideEncoded(side) == IF side = "BUY" THEN F1 ELSE F0

ServingFeatures(request) ==
    <<request.rsi,
      request.macd,
      request.macd_signal,
      FSub(request.macd, request.macd_signal),
      request.ema_alignment,
      request.atr_percent,
      request.volume_ratio,
      request.cvd,
      request.adx,
      SideEncoded(request.side)>>

\* the literals of calculate_fallback_score and predict_signal
BaseScore == Lit(50)
Bonus10 == Lit(10)
Bonus05 == Lit(5)
Bonus15 == Lit(15)
Bonus08 == Lit(8)
Rsi30 == Lit(3000)
Rsi40 == Lit(4000)
Rsi60 == Lit(6000)
Rsi70 == Lit(7000)
Adx20 == Lit(2000)
Adx25 == Lit(2500)
Volume12 == Lit(120)
High08 == Lit(80)
Medium06 == Lit(60)

\* RsiStep with the SELL branch testing the BUY side's oversold bound
RsiStepOversoldForSell(request, score) ==
    IF FLe(Rsi40, request.rsi) /\ FLe(request.rsi, Rsi60)
    THEN FAdd(score, Bonus10)
    ELSE IF FLt(request.rsi, Rsi30) THEN FAdd(score, Bonus05)
    ELSE score

\* lines 143-153: RSI scoring
RsiStep(request, score) ==
    IF request.side = "BUY"
    THEN IF FLe(Rsi40, request.rsi) /\ FLe(request.rsi, Rsi60)
         THEN FAdd(score, Bonus10)
         ELSE IF FLt(request.rsi, Rsi30) THEN FAdd(score, Bonus05)
         ELSE score
    ELSE IF FLe(Rsi40, request.rsi) /\ FLe(request.rsi, Rsi60)
         THEN FAdd(score, Bonus10)
         ELSE IF FGt(request.rsi, Rsi70) THEN FAdd(score, Bonus05)
         ELSE score

\* lines 155-159: ADX scoring
AdxStep(request, score) ==
    IF FGt(request.adx, Adx25) THEN FAdd(score, Bonus15)
    ELSE IF FGt(request.adx, Adx20) THEN FAdd(score, Bonus08)
    ELSE score

\* lines 161-164: CVD confirmation
CvdStep(request, score) ==
    IF (request.side = "BUY" /\ FGt(request.cvd, F0))
       \/ (request.side = "SELL" /\ FLt(request.cvd, F0))
    THEN FAdd(score, Bonus10)
    ELSE score

\* lines 166-168: volume confirmation
VolumeStep(request, score) ==
    IF FGt(request.volume_ratio, Volume12) THEN FAdd(score, Bonus10) ELSE score

\* lines 170-173: EMA alignment
EmaStep(request, score) ==
    IF (request.side = "BUY" /\ FGt(request.ema_alignment, F0))
       \/ (request.side = "SELL" /\ FLt(request.ema_alignment, F0))
    THEN FAdd(score, Bonus10)
    ELSE score

\* Clamp without the clamping
ClampNone(score) == score

\* line 176: max(0.0, min(1.0, score))
Clamp(score) == FMax(F0, FMin(F1, score))

calculate_fallback_score(request) ==
    Clamp(EmaStep(request, VolumeStep(request, CvdStep(request,
          AdxStep(request, RsiStep(request, BaseScore))))))

\* line 104: model.predict_proba(features)[0][1] on the loaded object.  The
\* classifier is opaque: it returns some probability; the object that is
\* not a usable classifier raises.
PredictProba(m, features) ==
    IF m = "classifier" /\ Len(features) = 10
    THEN {[raised |-> FALSE, p |-> p] : p \in ModelProbs}
    ELSE {[raised |-> TRUE, p |-> F0]}

\* line 110: float(os.getenv("MIN_PROBABILITY", "0.6"))
GetEnv(env) == IF env = "unset" THEN "0.6" ELSE env
FloatOfString == ("0.5" :> Lit(50)) @@ ("0.6" :> Lit(60)) @@ ("0.8" :> Lit(80))
ParsesAsFloat(str) == str \in DOMAIN FloatOfString

\* Recommended with a strict comparison
RecommendedStrict(probability, min_probability) == FGt(probability, min_probability)

\* line 111
Recommended(probability, min_probability) == FGe(probability, min_probability)

\* Confidence with strict comparisons
ConfidenceStrict(probability) ==
    IF FGt(probability, High08) THEN "HIGH"
    ELSE IF FGt(probability, Medium06) THEN "MEDIUM"
    ELSE "LOW"

\* lines 114-119
Confidence(probability) ==
    IF FGe(probability, High08) THEN "HIGH"
    ELSE IF FGe(probability, Medium06) THEN "MEDIUM"
    ELSE "LOW"

\* lines 131-133: raise HTTPException(status_code=500, detail=str(e))
Http500(detail) == [kind |-> "http500", detail |-> detail]

\* lines 123-129
SignalResponse(request, probability, recommended, confidence, scorer) ==
    [kind |-> "ok", symbol |-> request.symbol, side |-> request.side,
     probability |-> probability, recommended |-> recommended,
     confidence |-> confidence, scorer |-> scorer]

\* Probability falling back to the rules when the classifier call raises
ProbabilityDegrading(request, m, inv) ==
    IF m # None /\ ~inv.raised THEN inv
    ELSE [raised |-> FALSE, p |-> calculate_fallback_score(request)]

\* lines 102-107: the probability, or the exception of the classifier call
Probability(request, m, inv) ==
    IF m # None THEN inv
    ELSE [raised |-> FALSE, p |-> calculate_fallback_score(request)]

\* lines 87-133: the body of predict_signal for a request that passed the
\* SignalRequest validation, with inv the outcome of the classifier call
PredictBody(request, m, env, inv) ==
    LET scored == Probability(request, m, inv)
    IN  IF scored.raised THEN Http500("predict_proba")
        ELSE IF ~ParsesAsFloat(GetEnv(env)) THEN Http500("MIN_PROBABILITY")
        ELSE SignalResponse(request, scored.p,
                            Recommended(scored.p, FloatOfString[GetEnv(env)]),
                            Confidence(scored.p),
                            IF m # None THEN "model" ELSE "fallback")

\* lines 24-36: a body that does not fit SignalRequest is answered 422 by
\* the framework before the handler runs; side is declared str
Validates(request) == request.wellTyped

\* LoadedModel without the except clause's model = None
LoadedModelKeepsBroken(a) == IF a # "missing" THEN a ELSE None

\* lines 52-61
LoadedModel(a) ==
    IF a # "missing"
    THEN IF a = "unreadable" THEN None ELSE a
    ELSE None

\* HealthResponse reporting the status constant instead of the global
HealthResponseConstant(m) == [kind |-> "health", status |-> "healthy", model_loaded |-> TRUE]

\* lines 67-70
HealthResponse(m) == [kind |-> "health", status |-> "healthy", model_loaded |-> (m # None)]

NoCall == [kind |-> "none"]

ServiceInit ==
    /\ pc = "startup"
    /\ artifact \in Artifacts
    /\ minProbEnv \in EnvValues
    /\ model = None
    /\ lastReq = NoCall
    /\ lastResp = NoCall

TrainIdle ==
    /\ tpc = "idle"
    /\ source = NoCall
    /\ df = NoCall
    /\ X = NoCall
    /\ y = NoCall
    /\ fitted = NoCall

\* @app.on_event("startup")
load_model ==
    /\ pc = "startup"
    /\ model' = LoadedModel(artifact)
    /\ pc' = "serving"
    /\ UNCHANGED <<artifact, minProbEnv, lastReq, lastResp>>
    /\ UNCHANGED tvars

\* GET /health
health_check ==
    /\ pc = "serving"
    /\ lastReq' = [kind |-> "health"]
    /\ lastResp' = HealthResponse(model)
    /\ UNCHANGED <<pc, artifact, minProbEnv, model>>
    /\ UNCHANGED tvars

\* POST /predict
predict_signal ==
    /\ pc = "serving"
    /\ \E request \in Requests :
          /\ lastReq' = [kind |-> "predict", request |-> request]
          /\ IF ~Validates(request)
             THEN lastResp' = [kind |-> "http422"]
             ELSE \E inv \in PredictProba(model, ServingFeatures(request)) :
                     lastResp' = PredictBody(request, model, minProbEnv, inv)
    /\ UNCHANGED <<pc, artifact, minProbEnv, model>>
    /\ UNCHANGED tvars

---------------------------------------------------------------------------
(* ml_service/train_model.py *)

\* bounds of the historical source: how many closed positions it returns,
\* and the period of the pattern their pnl values follow
MaxHist == 51
PatLen == 2

\* bound: the number of synthetic trades generated (n_samples, 500 by
\* default in the script)
NSamples == 4

\* line 74: fewer records than this are supplemented with synthetic ones
MinTrades == 50
\* line 96: np.random.seed(42)
Seed == 42

\* pnl values of historical positions, in hundredths
PnlValues == {-500, 0, 1000}

\* seeds numpy's generator may start from when the script never seeded it
UnseededStates == {1, 2}

\* DataFrame cells: a number, or NaN.  Indicator, price and pnl cells hold
\* hundredths; timestamp and win cells hold integers.
Num(v) == [nan |-> FALSE, v |-> v]
NaN == [nan |-> TRUE, v |-> 0]
CellSub(a, b) == IF a.nan \/ b.nan THEN NaN ELSE Num(a.v - b.v)
\* (column > 0).astype(int): a comparison with NaN is False
CellPositive(a) == IF ~a.nan /\ a.v > 0 THEN Num(1) ELSE Num(0)

Range(seq) == {seq[i] : i \in DOMAIN seq}
SeqMinus(seq, S) == SelectSeq(seq, LAMBDA c : c \notin S)

\* pd.DataFrame(list of dicts): the columns are the keys, in order
DataFrame(columns, rows) ==
    [columns |-> IF rows = <<>> THEN <<>> ELSE columns, rows |-> rows]

\* pd.concat([a, b], ignore_index=True): the columns of a, then those only b
\* has; a cell of a column the row's frame lacked is NaN
Widen(row, columns) ==
    [c \in Range(columns) |-> IF c \in DOMAIN row THEN row[c] ELSE NaN]

Concat(a, b) ==
    LET columns == a.columns \o SeqMinus(b.columns, Range(a.columns))
    IN  [columns |-> columns,
         rows |-> [i \in 1..(Len(a.rows) + Len(b.rows)) |->
                     IF i <= Len(a.rows) THEN Widen(a.rows[i], columns)
                     ELSE Widen(b.rows[i - Len(a.rows)], columns)]]

\* the k-th draw of numpy's generator started from seed, as one of ten
\* equally likely levels of [0, 1)
Draw(seed, k) == ((k * k * 7 + k * 13 + seed * 31) % 101) % 10

\* lines 101-110: the random features of synthetic trade i, in hundredths
SyntheticFeatures(i) ==
    LET u == [j \in 1..12 |-> Draw(Seed, 12 * (i - 1) + j)]
        macd == 10 * u[3] - 45
    IN  [side |-> IF u[1] < 5 THEN "BUY" ELSE "SELL",
         rsi |-> 2300 + 600 * u[2],
         macd |-> macd,
         macd_signal |-> macd + (4 * u[4] - 18),
         ema_alignment |-> 40 * u[5] - 180,
         atr_percent |-> 62 + 25 * u[6],
         volume_ratio |-> 57 + 15 * u[7],
         cvd |-> 20000 * u[8] - 90000,
         adx |-> 1200 + 400 * u[9],
         price |-> 2400000 + 800000 * u[10],
         random |-> 10 * u[11] + 2,
         pnl_win |-> 725 + 450 * u[12],
         pnl_loss |-> 250 * u[12] - 2875]

\* lines 113-141: the win probability of a synthetic trade, in hundredths
WinProb(t) ==
    50
    + (IF t.side = "BUY"
       THEN IF t.rsi < 4000 THEN 10 ELSE IF t.rsi > 7000 THEN -15 ELSE 0
       ELSE IF t.rsi > 6000 THEN 10 ELSE IF t.rsi < 3000 THEN -15 ELSE 0)
    + (IF t.adx > 2500 THEN 15 ELSE 0)
    + (IF (t.side = "BUY" /\ t.cvd > 0) \/ (t.side = "SELL" /\ t.cvd < 0) THEN 10 ELSE 0)
    + (IF t.volume_ratio > 120 THEN 5 ELSE 0)
    + (IF (t.side = "BUY" /\ t.ema_alignment > 0)
          \/ (t.side = "SELL" /\ t.ema_alignment < 0) THEN 10 ELSE 0)

\* lines 144-160: the outcome and the record of synthetic trade i
SyntheticTrade(t) ==
    LET win == IF t.random < WinProb(t) THEN 1 ELSE 0
    IN  [side |-> t.side, rsi |-> Num(t.rsi), macd |-> Num(t.macd),
         macd_signal |-> Num(t.macd_signal), ema_alignment |-> Num(t.ema_alignment),
         atr_percent |-> Num(t.atr_percent), volume_ratio |-> Num(t.volume_ratio),
         cvd |-> Num(t.cvd), adx |-> Num(t.adx), price |-> Num(t.price),
         pnl |-> Num(IF win = 1 THEN t.pnl_win ELSE t.pnl_loss), win |-> Num(win)]

SyntheticRow(i) == SyntheticTrade(SyntheticFeatures(i))

SyntheticColumns ==
    <<"side", "rsi", "macd", "macd_signal", "ema_alignment", "atr_percent",
      "volume_ratio", "cvd", "adx", "price", "pnl", "win">>

\* lines 89-162
generate_synthetic_data(n_samples) ==
    DataFrame(SyntheticColumns, [i \in 1..n_samples |-> SyntheticRow(i)])

SyntheticDefault == generate_synthetic_data(NSamples)

\* lines 60-70: the records built from the query result
HistoricalColumns ==
    <<"timestamp", "symbol", "side", "pnl", "entry_price", "exit_price">>

HistoricalRecord(src, i) ==
    [timestamp |-> Num(i), symbol |-> "BTCUSDT",
     side |-> IF i % 2 = 1 THEN "BUY" ELSE "SELL",
     pnl |-> Num(src.pnl[((i - 1) % PatLen) + 1]),
     entry_price |-> Num(5000000), exit_price |-> Num(5010000)]

\* what the pipeline may find: no token configured; a query that raises;
\* a query that returns n closed positions
Sources ==
    {[token |-> FALSE, raises |-> FALSE, n |-> 0, pnl |-> [j \in 1..PatLen |-> 0]],
     [token |-> TRUE, raises |-> TRUE, n |-> 0, pnl |-> [j \in 1..PatLen |-> 0]]}
    \cup {[token |-> TRUE, raises |-> FALSE, n |-> n, pnl |-> p] :
            n \in 0..MaxHist, p \in [1..PatLen -> PnlValues]}

\* lines 31-86
FetchTradeData(src) ==
    IF ~src.token THEN SyntheticDefault
    ELSE IF src.raises THEN SyntheticDefault
    ELSE LET records == [i \in 1..src.n |-> HistoricalRecord(src, i)]
         IN  IF Len(records) < MinTrades
             THEN Concat(DataFrame(HistoricalColumns, records), SyntheticDefault)
             ELSE DataFrame(HistoricalColumns, records)

\* lines 170-171
WithWin(frame) ==
    IF "win" \notin Range(frame.columns)
    THEN [columns |-> Append(frame.columns, "win"),
          rows |-> [i \in DOMAIN frame.rows |->
                      [c \in DOMAIN frame.rows[i] \cup {"win"} |->
                          IF c = "win" THEN CellPositive(frame.rows[i]["pnl"])
                          ELSE frame.rows[i][c]]]]
    ELSE frame

\* lines 174-175
RequiredFeatures ==
    <<"rsi", "macd", "macd_signal", "ema_alignment",
      "atr_percent", "volume_ratio", "cvd", "adx">>

\* lines 177-180: a missing feature column is filled with uniform(0, 1) draws
WithFeatures(frame, seed) ==
    LET missing == SeqMinus(RequiredFeatures, Range(frame.columns))
        n == Len(frame.rows)
        nth(c) == CHOOSE j \in DOMAIN missing : missing[j] = c
    IN  [columns |-> frame.columns \o missing,
         rows |-> [i \in DOMAIN frame.rows |->
                     [c \in DOMAIN frame.rows[i] \cup Range(missing) |->
                         IF c \in DOMAIN frame.rows[i] THEN frame.rows[i][c]
                         ELSE Num(5 + 10 * Draw(seed, (nth(c) - 1) * n + i))]]]

\* lines 183-188: the columns of X, in the order the frame gets them
FeatureColumns == RequiredFeatures \o <<"macd_histogram", "side_encoded">>

FeatureRow(row) ==
    [c \in Range(FeatureColumns) |->
        IF c = "macd_histogram" THEN CellSub(row["macd"], row["macd_signal"])
        ELSE IF c = "side_encoded" THEN Num(IF row["side"] = "BUY" THEN 100 ELSE 0)
        ELSE row[c]]

\* lines 165-192
PrepareFeatures(frame, seed) ==
    LET full == WithFeatures(WithWin(frame), seed)
    IN  [df |-> full,
         X |-> [columns |-> FeatureColumns,
                rows |-> [i \in DOMAIN full.rows |-> FeatureRow(full.rows[i])]],
         y |-> [i \in DOMAIN full.rows |-> full.rows[i]["win"]]]

ServiceIdle ==
    /\ pc = "off"
    /\ artifact = "missing"
    /\ minProbEnv = "unset"
    /\ model = None
    /\ lastReq = NoCall
    /\ lastResp = NoCall

TrainInit ==
    /\ ServiceIdle
    /\ tpc = "main"
    /\ source \in Sources
    /\ df = NoCall
    /\ X = NoCall
    /\ y = NoCall
    /\ fitted = NoCall

\* line 253
fetch_trade_data ==
    /\ tpc = "main"
    /\ df' = FetchTradeData(source)
    /\ tpc' = "fetched"
    /\ UNCHANGED <<source, X, y, fitted>>
    /\ UNCHANGED svars

\* generate_synthetic_data seeds numpy's generator; the path that never
\* calls it leaves the generator in a state the script does not fix
GeneratorStates(src) ==
    IF src.token /\ ~src.raises /\ src.n >= MinTrades THEN UnseededStates ELSE {Seed}

\* line 257
prepare_features ==
    /\ tpc = "fetched"
    /\ \E seed \in GeneratorStates(source) :
          LET r == PrepareFeatures(df, seed)
          IN  /\ df' = r.df
              /\ X' = r.X
              /\ y' = r.y
    /\ tpc' = "prepared"
    /\ UNCHANGED <<source, fitted>>
    /\ UNCHANGED svars

\* lines 262-267: the fitted classifier keeps the columns of X in their order
train_model ==
    /\ tpc = "prepared"
    /\ fitted' = [kind |-> "classifier", feature_names |-> X.columns,
                  n_features |-> Len(X.columns)]
    /\ tpc' = "saved"
    /\ UNCHANGED <<source, df, X, y>>
    /\ UNCHANGED svars

\* lines 202-223: fitting on labels that are not all 0 or 1 may instead raise
train_model_raises ==
    /\ tpc = "prepared"
    /\ \E i \in DOMAIN y : y[i].nan
    /\ tpc' = "raised"
    /\ UNCHANGED <<source, df, X, y, fitted>>
    /\ UNCHANGED svars

TrainNext == fetch_trade_data \/ prepare_features \/ train_model \/ train_model_raises

TrainSpec == TrainInit /\ [][TrainNext]_vars

Init == ServiceInit /\ TrainIdle

Next == load_model \/ health_check \/ predict_signal

Spec == Init /\ [][Next]_vars

---------------------------------------------------------------------------
(* Properties *)

Predicted == pc = "serving" /\ lastReq.kind = "predict"
ValidSignal(request) == request.wellTyped /\ request.side \in {"BUY", "SELL"}
Scored == Predicted /\ lastResp.kind = "ok"
ScoredByRules == Scored /\ lastResp.scorer = "fallback"
Prepared == tpc \in {"prepared", "saved", "raised"}

CanonicalFeatures ==
    <<"rsi", "macd", "macd_signal", "macd_histogram", "ema_alignment",
      "atr_percent", "volume_ratio", "cvd", "adx", "side_encoded">>

\* C1: the training matrix X and the serving-time vector hold the same ten
\* features at the same positions, in the canonical order.
C1_FeatureOrderIdentical ==
    Prepared =>
        /\ Len(X.columns) = 10
        /\ Len(ServingFeatureNames) = 10
        /\ ServingFeatureNames = CanonicalFeatures
        /\ \A i \in 1..10 : X.columns[i] = ServingFeatureNames[i]

\* C2: a request whose side is neither BUY nor SELL is answered with a
\* validation error and never with a ScoreResult, model loaded or not.
C2_MalformedSideRejected ==
    (Predicted /\ lastReq.request.side \notin {"BUY", "SELL"}) =>
        lastResp.kind = "http422"

\* the reference value of the rule-based score
RefRsiBonus(r) ==
    IF FGe(r.rsi, Lit(4000)) /\ FLe(r.rsi, Lit(6000)) THEN Lit(10)
    ELSE IF (r.side = "BUY" /\ FLt(r.rsi, Lit(3000)))
            \/ (r.side = "SELL" /\ FGt(r.rsi, Lit(7000))) THEN Lit(5)
    ELSE F0
RefAdxBonus(r) ==
    IF FGt(r.adx, Lit(2500)) THEN Lit(15) ELSE IF FGt(r.adx, Lit(2000)) THEN Lit(8) ELSE F0
RefCvdBonus(r) ==
    IF (r.side = "BUY" /\ FGt(r.cvd, F0)) \/ (r.side = "SELL" /\ FLt(r.cvd, F0))
    THEN Lit(10) ELSE F0
RefVolumeBonus(r) == IF FGt(r.volume_ratio, Lit(120)) THEN Lit(10) ELSE F0
RefEmaBonus(r) ==
    IF (r.side = "BUY" /\ FGt(r.ema_alignment, F0))
       \/ (r.side = "SELL" /\ FLt(r.ema_alignment, F0))
    THEN Lit(10) ELSE F0
RefSum(r) ==
    FAdd(FAdd(FAdd(FAdd(FAdd(Lit(50), RefRsiBonus(r)), RefAdxBonus(r)),
                   RefCvdBonus(r)), RefVolumeBonus(r)), RefEmaBonus(r))
RefScore(r) ==
    IF FLt(RefSum(r), F0) THEN F0 ELSE IF FGt(RefSum(r), F1) THEN F1 ELSE RefSum(r)

BuyExample == SignalRequest("BUY", 5000, 3000, 10000, 150, 100, <<10, 5, 150, 50000>>, TRUE)
SellExample == SignalRequest("SELL", 5000, 1000, 0, 100, 0, <<0, 0, 100, 1000>>, TRUE)

\* C3: for a BUY or SELL signal the rule-based score is the reference value
\* clamp(0.5 + rsi + adx + cvd + volume + ema bonuses, 0, 1); the BUY example
\* scores 1.0 and the SELL example 0.5.
C3_FallbackIsReference ==
    (ScoredByRules /\ ValidSignal(lastReq.request)) =>
        /\ lastResp.probability = RefScore(lastReq.request)
        /\ lastReq.request = BuyExample => lastResp.probability = <<100, 0>>
        /\ lastReq.request = SellExample => lastResp.probability = <<50, 0>>

\* C3 as amended: the same reference value; the BUY example scores 1.0 and
\* the SELL example, whose rsi of 50 lies in the 40..60 band, scores 0.6.
C3_FallbackIsReferenceSellExampleAt06 ==
    (ScoredByRules /\ ValidSignal(lastReq.request)) =>
        /\ lastResp.probability = RefScore(lastReq.request)
        /\ lastReq.request = BuyExample => lastResp.probability = <<100, 0>>
        /\ lastReq.request = SellExample => lastResp.probability = Lit(60)

\* the SELL example was scored by the rules
C3_Witness ==
    /\ ScoredByRules
    /\ lastReq.request = SellExample
    /\ lastResp.probability = Lit(60)

\* C4: for a valid signal the rule-based score lies in [0.5, 1.0].
C4_FallbackRange ==
    (ScoredByRules /\ ValidSignal(lastReq.request)) =>
        /\ FGe(lastResp.probability, <<50, 0>>)
        /\ FLe(lastResp.probability, <<100, 0>>)

\* a signal whose bonuses sum above 1.0 was scored
C4_Witness ==
    /\ ScoredByRules
    /\ ValidSignal(lastReq.request)
    /\ FGt(RefSum(lastReq.request), <<100, 0>>)
    /\ lastResp.probability = <<100, 0>>

\* C5: the confidence is HIGH iff p >= 0.8, MEDIUM iff 0.6 <= p < 0.8 and LOW
\* iff p < 0.6, whichever scorer produced p and whatever threshold is set.
C5_ConfidenceBands ==
    Scored =>
        /\ lastResp.confidence \in {"HIGH", "MEDIUM", "LOW"}
        /\ lastResp.confidence = "HIGH" <=> FGe(lastResp.probability, Lit(80))
        /\ lastResp.confidence = "MEDIUM" <=>
              (FGe(lastResp.probability, Lit(60)) /\ FLt(lastResp.probability, Lit(80)))
        /\ lastResp.confidence = "LOW" <=> FLt(lastResp.probability, Lit(60))

\* a probability of exactly 0.8 is HIGH under a threshold other than 0.8
C5_Witness ==
    /\ Scored
    /\ lastResp.probability = Lit(80)
    /\ lastResp.confidence = "HIGH"
    /\ minProbEnv = "0.5"

ConfiguredThreshold ==
    CASE minProbEnv = "unset" -> Lit(60)
      [] minProbEnv = "0.5" -> Lit(50)
      [] minProbEnv = "0.8" -> Lit(80)

\* C6: recommended is true iff the probability is at least the configured
\* threshold, 0.6 when none is configured.
C6_RecommendedIffAtLeastThreshold ==
    Scored => (lastResp.recommended <=> FGe(lastResp.probability, ConfiguredThreshold))

\* a probability equal to the default threshold is recommended
C6_Witness ==
    /\ Scored
    /\ minProbEnv = "unset"
    /\ lastResp.probability = Lit(60)
    /\ lastResp.recommended

NoArtifactLoaded == artifact \in {"missing", "unreadable"}

ClassifierCallFails == model # None /\ model # "classifier"

\* C8: when the loaded model fails on a request, the request is answered
\* with a ScoreResult carrying the rule-based probability.
C8_InvocationFailureDegrades ==
    (Predicted /\ ClassifierCallFails /\ ValidSignal(lastReq.request)) =>
        /\ lastResp.kind = "ok"
        /\ lastResp.probability = RefScore(lastReq.request)

\* C8 as amended: such a request ends in a 500 error and no ScoreResult.
C8_InvocationFailureIsError ==
    (Predicted /\ ClassifierCallFails /\ ValidSignal(lastReq.request)) =>
        lastResp.kind = "http500"

C8_Witness ==
    /\ Predicted
    /\ ClassifierCallFails
    /\ ValidSignal(lastReq.request)
    /\ lastResp.kind = "http500"

\* C9: once serving, no request and no health query changes the model
\* reference, and every health reply reports the outcome of the startup load.
C9_ModelReadOnlyAfterLoad ==
    [][pc = "serving" =>
          /\ model' = model
          /\ lastResp'.kind = "health" =>
                (lastResp'.model_loaded <=> artifact \in {"classifier", "malformed"})]_vars

\* a health query answered while a classifier is loaded
C9_Witness ==
    /\ pc = "serving"
    /\ lastResp.kind = "health"
    /\ lastResp.model_loaded
    /\ model = "classifier"

\* the rows of the dataset that arrived without a win label
Unlabelled == IF source.token /\ ~source.raises THEN 1..source.n ELSE {}

\* C10: every label in y is 0 or 1, and a record that came without a win
\* label has win = 1 iff its pnl > 0.
C10_LabelsBinary ==
    Prepared =>
        /\ \A i \in DOMAIN y : ~y[i].nan /\ y[i].v \in {0, 1}
        /\ \A i \in Unlabelled :
              (y[i] = Num(1)) <=> (~df.rows[i]["pnl"].nan /\ df.rows[i]["pnl"].v > 0)

====
